---- MODULE Spec2Model ----
(***************************************************************************)
(* git-sherpa: the hook installer/uninstaller (hooks.rs), the validation   *)
(* engine (check.rs), the fix advisor (fix.rs), the repository facade      *)
(* (git.rs) and the sensitive-file matcher (sensitive.rs).                 *)
(*                                                                         *)
(* Text is a sequence of atoms.  Commit subjects, branch names, paths and  *)
(* glob patterns are sequences of one-character atoms; hook file contents  *)
(* are sequences of larger chunks (a chunk is a piece of text that is      *)
(* never split by the searches done on it).                                *)
(***************************************************************************)
EXTENDS Integers, Sequences, FiniteSets, TLC

VARIABLES
    hooksDir,    \* the hooks directory: hook name -> file (or Absent)
    prevHooks,   \* the hooks directory as the last hooks command found it
    initHooks,   \* the hooks directory of the initial state
    forced,      \* TRUE once an install with force=true has been executed
    hookOp,      \* the last hooks command: [op, force, protected]
    hookLog,     \* messages of the last hooks command, in emission order
    hookResult,  \* "ok" / "err": Result the last hooks command returned
    attempted,   \* hook names the loop of the last hooks command reached
    hookEnv,     \* outcome of each fallible file operation of the last hooks command
    gitRepo,     \* what git reports: [branch, log, dirty, upstream, staged]
    configFile,  \* the Config in the configuration file
    cmd,         \* the last check/fix command: [name, apply, format, limit, fails]
    prevRepo,    \* the repository as the last check/fix command found it
    lastReport,  \* <<>> or <<the Report build_report returned to the last command>>
    facadeCalls, \* facade calls the last command executed, in order
    out,         \* messages the last command printed, in order
    exitCode,    \* exit status of the last command
    errKind,     \* "none" or the kind of the error the last command ended with
    pc,          \* "ready": no check/fix process runs; "exited": one has just ended
    prePush,     \* the run of the pre-push hook script: [step, args, branch, ...]
    call         \* a call of a pure function: [fn, ..., result]

hookVars == <<hooksDir, prevHooks, initHooks, forced, hookOp, hookLog,
              hookResult, attempted, hookEnv>>

reportVars == <<gitRepo, configFile, cmd, prevRepo, lastReport, facadeCalls, out,
                exitCode, errKind, pc>>

otherVars == <<prePush, call>>

vars == <<hooksDir, prevHooks, initHooks, forced, hookOp, hookLog,
          hookResult, attempted, hookEnv,
          gitRepo, configFile, cmd, prevRepo, lastReport, facadeCalls, out,
          exitCode, errKind, pc, prePush, call>>

----------------------------------------------------------------------------
(* Text helpers *)

\* str::contains: sub occurs as a contiguous run of s
Contains(s, sub) ==
    \E i \in 0..(Len(s) - Len(sub)) : SubSeq(s, i + 1, i + Len(sub)) = sub

\* [String]::join(sep)
RECURSIVE Join(_, _)
Join(list, sep) ==
    IF Len(list) = 0 THEN <<>>
    ELSE IF Len(list) = 1 THEN list[1]
    ELSE list[1] \o sep \o Join(Tail(list), sep)

\* the text after its first k atoms
Drop(s, k) == SubSeq(s, k + 1, Len(s))

StartsWith(s, pre) == Len(pre) <= Len(s) /\ SubSeq(s, 1, Len(pre)) = pre

\* Result<T>
Ok(v) == [ok |-> TRUE, value |-> v]
Err(kind) == [ok |-> FALSE, kind |-> kind]

\* Result<String>::unwrap_or_default, Result<Vec<String>>::unwrap_or_default
unwrap_or_default(res) == IF res.ok THEN res.value ELSE <<>>

----------------------------------------------------------------------------
(* check.rs: the regular expressions *)

Lower == {"a", "b", "c", "d", "e", "f", "g", "h", "i", "j", "k", "l", "m",
          "n", "o", "p", "q", "r", "s", "t", "u", "v", "w", "x", "y", "z"}
Digit == {"0", "1", "2", "3", "4", "5", "6", "7", "8", "9"}
\* the class [a-z0-9-]
SlugChars == Lower \cup Digit \cup {"-"}

\* (feat|fix|chore|docs|refactor|test|perf|ci|build)
\* (mutant: the five types of the branch pattern only)
ShortCommitTypes ==
    {<<"f", "e", "a", "t">>, <<"f", "i", "x">>, <<"c", "h", "o", "r", "e">>,
     <<"d", "o", "c", "s">>, <<"r", "e", "f", "a", "c", "t", "o", "r">>}

CommitTypes ==
    {<<"f", "e", "a", "t">>, <<"f", "i", "x">>, <<"c", "h", "o", "r", "e">>,
     <<"d", "o", "c", "s">>, <<"r", "e", "f", "a", "c", "t", "o", "r">>,
     <<"t", "e", "s", "t">>, <<"p", "e", "r", "f">>, <<"c", "i">>,
     <<"b", "u", "i", "l", "d">>}

\* (feat|fix|chore|docs|refactor) of the default branch pattern
BranchTypes ==
    {<<"f", "e", "a", "t">>, <<"f", "i", "x">>, <<"c", "h", "o", "r", "e">>,
     <<"d", "o", "c", "s">>, <<"r", "e", "f", "a", "c", "t", "o", "r">>}

\* ": .+" at the start of r ("." is any character but a line feed)
ColonSpaceText(r) == Len(r) >= 3 /\ r[1] = ":" /\ r[2] = " " /\ r[3] # "\n"

\* "(\([a-z0-9-]+\))?: .+" at the start of r
ScopeColonText(r) ==
    \/ ColonSpaceText(r)
    \/ /\ Len(r) >= 3
       /\ r[1] = "("
       /\ \E k \in 1..(Len(r) - 2) :
            /\ \A i \in 2..(k + 1) : r[i] \in SlugChars
            /\ r[k + 2] = ")"
            /\ ColonSpaceText(Drop(r, k + 2))

\* ^(feat|fix|chore|docs|refactor|test|perf|ci|build)(\([a-z0-9-]+\))?: .+
MatchConventional(subject) ==
    \E t \in CommitTypes :
        StartsWith(subject, t) /\ ScopeColonText(Drop(subject, Len(t)))

\* ^(feat|fix|chore|docs|refactor)/[a-z0-9-]+$
MatchDefaultBranch(name) ==
    \E t \in BranchTypes :
        /\ StartsWith(name, t)
        /\ LET r == Drop(name, Len(t))
           IN  /\ Len(r) >= 2
               /\ r[1] = "/"
               /\ \A i \in 2..Len(r) : r[i] \in SlugChars

CONVENTIONAL_REGEX ==
    "^(feat|fix|chore|docs|refactor|test|perf|ci|build)(\\([a-z0-9-]+\\))?: .+"
DEFAULT_BRANCH_PATTERN == "^(feat|fix|chore|docs|refactor)/[a-z0-9-]+$"
MAIN_BRANCH_PATTERN == "^main$"
\* a pattern Regex::new rejects (unclosed group)
INVALID_PATTERN == "^(feat"

\* Regex::new
regex_new(pattern) ==
    IF pattern \in {CONVENTIONAL_REGEX, DEFAULT_BRANCH_PATTERN, MAIN_BRANCH_PATTERN}
    THEN Ok(pattern)
    ELSE Err("ConfigError")

\* Regex::is_match
is_match(regex, text) ==
    CASE regex = CONVENTIONAL_REGEX -> MatchConventional(text)
      [] regex = DEFAULT_BRANCH_PATTERN -> MatchDefaultBranch(text)
      [] regex = MAIN_BRANCH_PATTERN -> text = <<"m", "a", "i", "n">>
      [] OTHER -> FALSE

commit_regex_for(convention) ==
    IF convention = "conventional"
    THEN regex_new(CONVENTIONAL_REGEX)
    ELSE Err("ConfigError")

----------------------------------------------------------------------------
(* sensitive.rs *)

DEFAULT_PATTERNS ==
    << <<".", "e", "n", "v">>,
       <<".", "e", "n", "v", ".", "*">>,
       <<"*", ".", "p", "e", "m">>,
       <<"*", ".", "k", "e", "y">>,
       <<"*", "*", "/", "i", "d", "_", "r", "s", "a">>,
       <<"*", "*", "/", "i", "d", "_", "r", "s", "a", ".", "p", "u", "b">>,
       <<"*", "*", "/", "c", "r", "e", "d", "e", "n", "t", "i", "a", "l", "s",
         ".", "j", "s", "o", "n">>,
       <<"*", "*", "/", "*", ".", "p", "1", "2">>,
       <<"*", "*", "/", "*", ".", "p", "f", "x">> >>

default_patterns == DEFAULT_PATTERNS

\* glob_match::glob_match for patterns made of literals, "?", "*" (any run of
\* characters inside one path segment) and a segment "**" followed by "/" (any
\* number of leading directories, none included); segStart: the pattern
\* position is at the start of a path segment
RECURSIVE GlobFrom(_, _, _)
GlobFrom(pat, path, segStart) ==
    IF pat = <<>> THEN path = <<>>
    ELSE IF segStart /\ StartsWith(pat, <<"*", "*", "/">>)
    THEN \/ GlobFrom(Drop(pat, 3), path, TRUE)
         \/ \E i \in 1..Len(path) :
                path[i] = "/" /\ GlobFrom(Drop(pat, 3), Drop(path, i), TRUE)
    ELSE IF pat[1] = "*"
    THEN \E k \in 0..Len(path) :
            /\ \A i \in 1..k : path[i] # "/"
            /\ GlobFrom(Tail(pat), Drop(path, k), FALSE)
    ELSE IF pat[1] = "?"
    THEN path # <<>> /\ path[1] # "/" /\ GlobFrom(Tail(pat), Tail(path), FALSE)
    ELSE /\ path # <<>>
         /\ path[1] = pat[1]
         /\ GlobFrom(Tail(pat), Tail(path), pat[1] = "/")

glob_match(pat, path) == GlobFrom(pat, path, TRUE)

\* staged.iter().filter(|file| patterns.iter().any(..)).cloned().collect()
\* (mutant: a file is collected once for each pattern it matches)
RECURSIVE check_sensitive_files_per_pattern(_, _)
check_sensitive_files_per_pattern(staged, patterns) ==
    IF staged = <<>> THEN <<>>
    ELSE [j \in 1..Cardinality({k \in 1..Len(patterns) :
                                    glob_match(patterns[k], Head(staged))}) |->
            Head(staged)]
         \o check_sensitive_files_per_pattern(Tail(staged), patterns)

check_sensitive_files(staged, patterns) ==
    SelectSeq(staged,
              LAMBDA file : \E j \in 1..Len(patterns) : glob_match(patterns[j], file))

----------------------------------------------------------------------------
(* git.rs: the repository facade.  repo is the state git reports on; fails *)
(* is the set of facade calls whose git process fails in this run.         *)

Whitespace == {" ", "\n", "\t", "\r"}

\* str::trim
RECURSIVE TrimStart(_)
TrimStart(s) ==
    IF s # <<>> /\ s[1] \in Whitespace THEN TrimStart(Tail(s)) ELSE s

RECURSIVE TrimEnd(_)
TrimEnd(s) ==
    IF s # <<>> /\ s[Len(s)] \in Whitespace
    THEN TrimEnd(SubSeq(s, 1, Len(s) - 1))
    ELSE s

Trim(s) == TrimEnd(TrimStart(s))

current_branch(repo, fails) ==
    IF "current_branch" \in fails THEN Err("RepositoryError")
    ELSE Ok(Trim(repo.branch \o <<"\n">>))

\* git log -n{limit} --pretty=format:%H:::%s, one line per commit
LogLines(repo, limit) ==
    [i \in 1..(IF limit < Len(repo.log) THEN limit ELSE Len(repo.log)) |->
        repo.log[i].hash \o <<":", ":", ":">> \o repo.log[i].subject]

\* line.splitn(2, ":::"): <<hash, message>>, or <<>> for a line without ":::"
SplitLine(line) ==
    LET at == {i \in 1..(Len(line) - 2) : SubSeq(line, i, i + 2) = <<":", ":", ":">>}
    IN  IF at = {} THEN <<>>
        ELSE LET i == CHOOSE j \in at : \A k \in at : j <= k
             IN  <<[hash |-> SubSeq(line, 1, i - 1), message |-> Drop(line, i + 2)]>>

RECURSIVE FilterMapLines(_)
FilterMapLines(lines) ==
    IF lines = <<>> THEN <<>>
    ELSE SplitLine(Head(lines)) \o FilterMapLines(Tail(lines))

recent_commits(limit, repo, fails) ==
    IF "recent_commits" \in fails THEN Err("RepositoryError")
    ELSE Ok(FilterMapLines(LogLines(repo, limit)))

worktree_clean(repo, fails) ==
    IF "worktree_clean" \in fails THEN Err("RepositoryError") ELSE Ok(~repo.dirty)

\* Err only when the git process cannot be run; a failing probe is Ok(false)
\* (mutant: an unsuccessful probe bails, as the other facade functions do)
has_upstream_bailing(repo, fails) ==
    IF "has_upstream" \in fails \/ ~repo.upstream
    THEN Err("RepositoryError")
    ELSE Ok(TRUE)

has_upstream(repo, fails) ==
    IF "has_upstream" \in fails THEN Err("RepositoryError") ELSE Ok(repo.upstream)

staged_files(repo, fails) ==
    IF "staged_files" \in fails THEN Err("RepositoryError") ELSE Ok(repo.staged)

push_set_upstream(branch, fails) ==
    IF "push_set_upstream" \in fails THEN Err("RepositoryError") ELSE Ok(branch)

\* config::load_config
load_config(config, fails) ==
    IF "load_config" \in fails THEN Err("ConfigError") ELSE Ok(config)

----------------------------------------------------------------------------
(* check.rs: build_report *)

\* check.rs:98  commit_reports.iter().filter(|c| !c.valid).count()
\* (mutant: the valid commits are counted)
RECURSIVE CountValid(_)
CountValid(commit_reports) ==
    IF commit_reports = <<>> THEN 0
    ELSE (IF Head(commit_reports).valid THEN 1 ELSE 0) + CountValid(Tail(commit_reports))

RECURSIVE CountInvalid(_)
CountInvalid(commit_reports) ==
    IF commit_reports = <<>> THEN 0
    ELSE (IF Head(commit_reports).valid THEN 0 ELSE 1) + CountInvalid(Tail(commit_reports))

\* check.rs:84-85  !config.checks.require_X || git::X()?  : the query is
\* short-circuited when the requirement is off
\* (mutant: the query is made whatever the flag says)
ShortCircuitsNever(required) == FALSE

ShortCircuits(required) == ~required

\* a build_report that returned Err after the facade calls in calls
Failed(kind, calls) == [ok |-> FALSE, kind |-> kind, calls |-> calls]

\* the body shared by check.rs build_report (sensitive = TRUE) and the
\* build_report of main.rs (sensitive = FALSE: no staged-files query)
BuildReport(config, commit_limit, repo, fails, sensitive) ==
    LET branch_name == current_branch(repo, fails)
        c1 == <<"current_branch">>
        branch_regex == regex_new(config.branches.pattern)
    IN
    IF ~branch_name.ok THEN Failed(branch_name.kind, c1)
    ELSE IF ~branch_regex.ok THEN Failed(branch_regex.kind, c1)
    ELSE
    LET branch_valid == is_match(branch_regex.value, branch_name.value)
        need_wt == ~ShortCircuits(config.checks.require_clean_worktree)
        wt == IF need_wt
              THEN LET q == worktree_clean(repo, fails)
                   IN  IF q.ok
                       THEN Ok(~config.checks.require_clean_worktree \/ q.value)
                       ELSE q
              ELSE Ok(TRUE)
        c2 == c1 \o (IF need_wt THEN <<"worktree_clean">> ELSE <<>>)
    IN
    IF ~wt.ok THEN Failed(wt.kind, c2)
    ELSE
    LET need_up == ~ShortCircuits(config.checks.require_upstream)
        up == IF need_up
              THEN LET q == has_upstream(repo, fails)
                   IN  IF q.ok
                       THEN Ok(~config.checks.require_upstream \/ q.value)
                       ELSE q
              ELSE Ok(TRUE)
        c3 == c2 \o (IF need_up THEN <<"has_upstream">> ELSE <<>>)
    IN
    IF ~up.ok THEN Failed(up.kind, c3)
    ELSE
    LET commit_regex == commit_regex_for(config.commits.convention)
    IN
    IF ~commit_regex.ok THEN Failed(commit_regex.kind, c3)
    ELSE
    LET commits == recent_commits(commit_limit, repo, fails)
        c4 == c3 \o <<"recent_commits">>
    IN
    IF ~commits.ok THEN Failed(commits.kind, c4)
    ELSE
    LET commit_reports ==
            [i \in 1..Len(commits.value) |->
                [hash |-> commits.value[i].hash,
                 message |-> commits.value[i].message,
                 valid |-> is_match(commit_regex.value, commits.value[i].message)]]
        invalid_commits == CountInvalid(commit_reports)
        total_commits == Len(commit_reports)
        staged == IF sensitive
                  THEN unwrap_or_default(staged_files(repo, fails))
                  ELSE <<>>
        c5 == c4 \o (IF sensitive THEN <<"staged_files">> ELSE <<>>)
        sensitive_files == check_sensitive_files(staged, config.sensitive.patterns)
    IN  [ok |-> TRUE,
         calls |-> c5,
         value |->
            [branch |-> [name |-> branch_name.value,
                         pattern |-> config.branches.pattern,
                         valid |-> branch_valid],
             commits |-> commit_reports,
             repo |-> [worktree_clean |-> wt.value, upstream_set |-> up.value],
             sensitive |-> [files |-> sensitive_files],
             summary |-> [total_commits |-> total_commits,
                          invalid_commits |-> invalid_commits,
                          branch_valid |-> branch_valid,
                          worktree_clean |-> wt.value,
                          upstream_set |-> up.value,
                          sensitive_files |-> Len(sensitive_files)]]]

build_report(config, commit_limit, repo, fails) ==
    BuildReport(config, commit_limit, repo, fails, TRUE)

\* main.rs: its Report and Summary have no sensitive finding
main_build_report(config, commit_limit, repo, fails) ==
    LET r == BuildReport(config, commit_limit, repo, fails, FALSE)
    IN  IF ~r.ok THEN r
        ELSE [r EXCEPT !.value =
                [branch |-> r.value.branch,
                 commits |-> r.value.commits,
                 repo |-> r.value.repo,
                 summary |-> [total_commits |-> r.value.summary.total_commits,
                              invalid_commits |-> r.value.summary.invalid_commits,
                              branch_valid |-> r.value.summary.branch_valid,
                              worktree_clean |-> r.value.summary.worktree_clean,
                              upstream_set |-> r.value.summary.upstream_set]]]

\* check.rs:65-69 (mutant: main.rs:176-179, which has no sensitive term)
has_violations_without_sensitive(report) ==
    \/ ~report.summary.branch_valid
    \/ report.summary.invalid_commits > 0
    \/ ~report.summary.worktree_clean
    \/ ~report.summary.upstream_set

has_violations(report) ==
    \/ ~report.summary.branch_valid
    \/ report.summary.invalid_commits > 0
    \/ ~report.summary.worktree_clean
    \/ ~report.summary.upstream_set
    \/ report.summary.sensitive_files > 0

----------------------------------------------------------------------------
(* fix.rs *)

Msg(kind, arg) == [kind |-> kind, arg |-> arg]

\* fix.rs:61  report.commits.iter().filter(|c| !c.valid)
InvalidCommits(report) == SelectSeq(report.commits, LAMBDA c : ~c.valid)

RewordInstructions(report) ==
    LET bad == InvalidCommits(report)
    IN  [i \in 1..Len(bad) |-> Msg("reword", bad[i].hash)]

UnstageInstructions(report) ==
    [i \in 1..Len(report.sensitive.files) |-> Msg("unstage", report.sensitive.files[i])]

\* fix.rs:42-44  the set-upstream action is run
\* (mutant: the apply flag is not consulted)
ShouldPushIgnoringApply(report, apply) == ~report.repo.upstream_set

ShouldPush(report, apply) == ~report.repo.upstream_set /\ apply

\* the has_fixes flag at fix.rs:83
\* (mutant: main.rs:216-219, which does not look at the sensitive finding)
HasFixesWithoutSensitive(report) ==
    \/ ~report.branch.valid
    \/ ~report.repo.worktree_clean
    \/ ~report.repo.upstream_set
    \/ InvalidCommits(report) # <<>>

HasFixes(report) ==
    \/ ~report.branch.valid
    \/ ~report.repo.worktree_clean
    \/ ~report.repo.upstream_set
    \/ InvalidCommits(report) # <<>>
    \/ report.sensitive.files # <<>>

\* fix.rs:13-90, after build_report: the messages printed, the facade actions
\* run, and whether Ok(()) is returned
fix(report, apply, fails) ==
    LET header == <<Msg("suggested_fixes", <<>>)>>
        branchPart ==
            IF ~report.branch.valid
            THEN <<Msg("rename_branch", report.branch.name)>>
            ELSE <<>>
        worktreePart ==
            IF ~report.repo.worktree_clean THEN <<Msg("clean_worktree", <<>>)>> ELSE <<>>
        pushing == ShouldPush(report, apply)
        push == push_set_upstream(report.branch.name, fails)
        calls == IF pushing THEN <<"push_set_upstream">> ELSE <<>>
    IN  IF pushing /\ ~push.ok
        THEN [ok |-> FALSE, calls |-> calls,
              out |-> header \o branchPart \o worktreePart
                      \o <<Msg("setting_upstream", report.branch.name)>>]
        ELSE LET upstreamPart ==
                    IF report.repo.upstream_set THEN <<>>
                    ELSE IF pushing
                    THEN <<Msg("setting_upstream", report.branch.name),
                           Msg("upstream_set", <<>>)>>
                    ELSE <<Msg("push_instruction", report.branch.name)>>
                 sensitivePart ==
                    IF report.sensitive.files # <<>>
                    THEN <<Msg("sensitive_staged", <<>>)>> \o UnstageInstructions(report)
                    ELSE <<>>
                 donePart ==
                    IF ~HasFixes(report) THEN <<Msg("no_fixes_needed", <<>>)>> ELSE <<>>
             IN  [ok |-> TRUE, calls |-> calls,
                  out |-> header \o branchPart \o worktreePart \o upstreamPart
                          \o RewordInstructions(report) \o sensitivePart \o donePart]

\* main.rs:192-224: the fix of main.rs, after its build_report
main_fix(report) ==
    LET header == <<Msg("suggested_fixes", <<>>)>>
        branchPart ==
            IF ~report.branch.valid
            THEN <<Msg("rename_branch", report.branch.name)>>
            ELSE <<>>
        worktreePart ==
            IF ~report.repo.worktree_clean THEN <<Msg("clean_worktree", <<>>)>> ELSE <<>>
        upstreamPart ==
            IF ~report.repo.upstream_set
            THEN <<Msg("push_instruction", report.branch.name)>>
            ELSE <<>>
        donePart ==
            IF /\ report.branch.valid
               /\ \A i \in 1..Len(report.commits) : report.commits[i].valid
               /\ report.repo.worktree_clean
               /\ report.repo.upstream_set
            THEN <<Msg("no_fixes_needed", <<>>)>>
            ELSE <<>>
    IN  [ok |-> TRUE, calls |-> <<>>,
         out |-> header \o branchPart \o worktreePart \o upstreamPart
                 \o RewordInstructions(report) \o donePart]

----------------------------------------------------------------------------
(* hooks.rs: generated contents *)

HOOK_MARKER == <<"# git-sherpa">>

\* a byte sequence that is not valid UTF-8 (fs::read_to_string fails on it)
INVALID_UTF8 == "\\xFF"

\* (mutant: the marker line is left out)
hook_content_without_marker == <<"#!/bin/sh\n", "exec git-sherpa check\n">>

hook_content ==
    <<"#!/bin/sh\n">> \o HOOK_MARKER \o <<"\nexec git-sherpa check\n">>

pre_push_hook_content(protected_branches) ==
    LET branches_list == Join(protected_branches, <<"|">>)
    IN  <<"#!/bin/sh\n">> \o HOOK_MARKER
        \o <<"\n\n# Block force push\n",
             "for arg in \"$@\"; do\n",
             "    case \"$arg\" in\n",
             "        --force|-f|--force-with-lease)\n",
             "            echo \"git-sherpa: force push is blocked.\"\n",
             "            exit 1\n",
             "            ;;\n",
             "    esac\n",
             "done\n\n",
             "# Block push to protected branches\n",
             "current_branch=$(git rev-parse --abbrev-ref HEAD)\n",
             "case \"$current_branch\" in\n",
             "    ">>
        \o branches_list
        \o <<")\n",
             "        echo \"git-sherpa: direct push to '$current_branch' is blocked. Use a pull request.\"\n",
             "        exit 1\n",
             "        ;;\n",
             "esac\n\n",
             "exec git-sherpa check\n">>

----------------------------------------------------------------------------
(* The hooks directory *)

HookNames == <<"pre-commit", "pre-push">>
HookNameSet == {"pre-commit", "pre-push"}

Absent == [exists |-> FALSE]
File(content) == [exists |-> TRUE, content |-> content]

\* fs::read_to_string(path): Err unless the bytes are valid UTF-8
read_to_string(file) ==
    IF \E i \in 1..Len(file.content) : file.content[i] = INVALID_UTF8
    THEN Err("IOError")
    ELSE Ok(file.content)

\* hook files a user may have put in place before any command runs
ForeignUnmarked == <<"#!/bin/sh\n", "make lint\n">>
ForeignMarked   == <<"#!/bin/sh\n", "# git-sherpa", " (edited by hand)\n", "make test\n">>
MarkedNotUtf8   == <<"#!/bin/sh\n", "# git-sherpa", "\n", "# caf", INVALID_UTF8, "\n",
                     "exec git-sherpa check\n">>

InitialFiles ==
    {Absent, File(ForeignUnmarked), File(ForeignMarked), File(MarkedNotUtf8)}

\* protected_branches lists install is called with (config.rs default: main, master)
ProtectedLists == {<<>>, <<<<"main">>, <<"master">>>>}


----------------------------------------------------------------------------
(* hooks.rs: install_with_config *)

\* what fs::write + fs::set_permissions can do to one hook file
IOOutcomes == {"ok", "open_fail", "write_fail", "chmod_fail"}

\* hooks.rs:61  if path.exists() && !force
\* (mutant: an existing file is never skipped)
ShouldSkipNever(file, force) == FALSE

ShouldSkip(file, force) == file.exists /\ ~force

\* one iteration of the loop of install_with_config; st.res = "err" once a `?`
\* has returned from the function
InstallOne(st, name, content, force, io) ==
    IF st.res = "err" THEN st
    ELSE LET reached == [st EXCEPT !.att = @ \cup {name}]
         IN  IF ShouldSkip(st.dir[name], force)
             THEN [reached EXCEPT
                     !.log = Append(@, [msg |-> "warn_exists", hook |-> name])]
             ELSE CASE io = "open_fail" ->
                         [reached EXCEPT !.res = "err"]
                    [] io = "write_fail" ->
                         [reached EXCEPT !.res = "err", !.dir[name] = File(<<>>)]
                    [] io = "chmod_fail" ->
                         [reached EXCEPT !.res = "err", !.dir[name] = File(content)]
                    [] OTHER ->
                         [reached EXCEPT
                            !.dir[name] = File(content),
                            !.log = Append(@, [msg |-> "installed", hook |-> name])]

install_with_config(dir, force, protected_branches, dirOk, io) ==
    LET st0 == [dir |-> dir, log |-> <<>>, res |-> "ok", att |-> {}]
    IN  IF ~dirOk THEN [st0 EXCEPT !.res = "err"]   \* git::hooks_dir()? / create_dir_all?
        ELSE LET st1 == InstallOne(st0, HookNames[1], hook_content, force,
                                   io[HookNames[1]])
             IN  InstallOne(st1, HookNames[2],
                            pre_push_hook_content(protected_branches), force,
                            io[HookNames[2]])

----------------------------------------------------------------------------
(* hooks.rs: uninstall *)

\* hooks.rs:92  content.contains(HOOK_MARKER)  (mutant: every file counts as owned)
IsOwnedAlways(content) == TRUE

IsOwned(content) == Contains(content, HOOK_MARKER)

UninstallOne(st, name, io) ==
    IF st.res = "err" THEN st
    ELSE LET reached == [st EXCEPT !.att = @ \cup {name}]
             file    == st.dir[name]
         IN  IF ~file.exists THEN reached
             ELSE LET content == unwrap_or_default(read_to_string(file))
                  IN  IF ~IsOwned(content)
                      THEN [reached EXCEPT
                              !.log = Append(@, [msg |-> "warn_foreign", hook |-> name])]
                      ELSE IF io = "remove_fail"
                      THEN [reached EXCEPT !.res = "err"]
                      ELSE [reached EXCEPT
                              !.dir[name] = Absent,
                              !.log = Append(@, [msg |-> "removed", hook |-> name])]

uninstall(dir, dirOk, io) ==
    LET st0 == [dir |-> dir, log |-> <<>>, res |-> "ok", att |-> {}]
    IN  IF ~dirOk THEN [st0 EXCEPT !.res = "err"]
        ELSE UninstallOne(UninstallOne(st0, HookNames[1], io[HookNames[1]]),
                          HookNames[2], io[HookNames[2]])

----------------------------------------------------------------------------
(* Repositories and configurations the commands are run on *)

\* bound: number of commits in the git log
MaxLog == 2

\* cli.rs:26, cli.rs:33  default_value_t = 20
DEFAULT_COMMIT_LIMIT == 20

\* %H: 40 hexadecimal digits, one chunk
CommitAdd == [hash |-> <<"a1a1a1a1a1a1a1a1a1a1a1a1a1a1a1a1a1a1a1a1">>,
              subject |-> <<"f", "e", "a", "t", ":", " ", "a", "d", "d">>]
CommitFixBug == [hash |-> <<"b2b2b2b2b2b2b2b2b2b2b2b2b2b2b2b2b2b2b2b2">>,
                 subject |-> <<"F", "i", "x", " ", "b", "u", "g">>]
CommitWip == [hash |-> <<"c3c3c3c3c3c3c3c3c3c3c3c3c3c3c3c3c3c3c3c3">>,
              subject |-> <<"w", "i", "p">>]
SampleCommits == {CommitAdd, CommitFixBug, CommitWip}

\* git logs: up to MaxLog commits, each commit at most once
Logs ==
    UNION {{l \in [1..n -> SampleCommits] :
                \A i, j \in 1..n : i # j => l[i] # l[j]} : n \in 0..MaxLog}

BranchNames == {<<"m", "a", "i", "n">>, <<"f", "e", "a", "t", "/", "x", "1">>}

StagedLists ==
    {<<>>,
     << <<".", "e", "n", "v">>,
        <<"s", "r", "c", "/", "m", "a", "i", "n", ".", "r", "s">>,
        <<"s", "e", "r", "v", "e", "r", ".", "p", "e", "m">> >>}

Repos ==
    [branch : BranchNames, log : Logs, dirty : BOOLEAN, upstream : BOOLEAN,
     staged : StagedLists]

\* every combination of the two requirement flags, with a known and with an
\* unknown convention; and the default flags with a branch pattern that is no
\* regular expression (build_report returns before it reads the flags)
Configs ==
    [branches : [pattern : {DEFAULT_BRANCH_PATTERN}],
     commits : [convention : {"conventional", "gitmoji"}],
     checks : [require_clean_worktree : BOOLEAN, require_upstream : BOOLEAN],
     sensitive : [patterns : {default_patterns}],
     hooks : [protected_branches : {<<<<"main">>, <<"master">>>>}]]
    \cup
    [branches : [pattern : {INVALID_PATTERN}],
     commits : [convention : {"conventional"}],
     checks : [require_clean_worktree : {TRUE}, require_upstream : {TRUE}],
     sensitive : [patterns : {default_patterns}],
     hooks : [protected_branches : {<<<<"main">>, <<"master">>>>}]]

\* config.rs:66-81
default_config ==
    [branches |-> [pattern |-> DEFAULT_BRANCH_PATTERN],
     commits |-> [convention |-> "conventional"],
     checks |-> [require_clean_worktree |-> TRUE, require_upstream |-> TRUE],
     sensitive |-> [patterns |-> default_patterns],
     hooks |-> [protected_branches |-> <<<<"main">>, <<"master">>>>]]

DefaultRepo ==
    [branch |-> <<"m", "a", "i", "n">>, log |-> <<>>, dirty |-> FALSE,
     upstream |-> FALSE, staged |-> <<>>]

FallibleCalls ==
    {"load_config", "current_branch", "worktree_clean", "has_upstream",
     "recent_commits", "staged_files", "push_set_upstream"}

\* the calls that fail in one run of a command that makes the calls in
\* `made`: every call but staged_files ends the command when it fails, so a run
\* has one failing call, or a failing staged_files and a failing call after it
FailureSets(made) ==
    {{}} \cup {{f} : f \in made}
    \cup (IF {"staged_files", "push_set_upstream"} \subseteq made
         THEN {{"staged_files", "push_set_upstream"}} ELSE {})

CommitLimits == {1, DEFAULT_COMMIT_LIMIT}

NoCmd == [name |-> "none", apply |-> FALSE, format |-> "text", limit |-> 0, fails |-> {}]

----------------------------------------------------------------------------
(* The hooks commands as actions *)

NoOp == [op |-> "none", force |-> FALSE, protected |-> <<>>]

NoEnv == [dirOk |-> TRUE, io |-> [h \in HookNameSet |-> "ok"]]

\* the environment of one run: either the hooks directory cannot be had, or
\* each file operation has its own outcome
InstallEnvs ==
    {[dirOk |-> FALSE, io |-> [h \in HookNameSet |-> "ok"]]}
    \cup {[dirOk |-> TRUE, io |-> io] : io \in [HookNameSet -> IOOutcomes]}

\* for uninstall io[h] = "ok" iff fs::remove_file succeeds on h
UninstallEnvs ==
    {[dirOk |-> FALSE, io |-> [h \in HookNameSet |-> "ok"]]}
    \cup {[dirOk |-> TRUE, io |-> io] : io \in [HookNameSet -> {"ok", "remove_fail"}]}

Install ==
    \E force \in BOOLEAN, pb \in ProtectedLists, env \in InstallEnvs :
        LET dirOk == env.dirOk
            st == install_with_config(hooksDir, force, pb, dirOk, env.io)
        IN  /\ hooksDir' = st.dir
            /\ prevHooks' = hooksDir
            /\ hookOp' = [op |-> "install", force |-> force, protected |-> pb]
            /\ hookLog' = st.log
            /\ hookResult' = st.res
            /\ attempted' = st.att
            /\ hookEnv' = env
            /\ forced' = (forced \/ (force /\ dirOk))
            /\ UNCHANGED initHooks
            /\ UNCHANGED <<reportVars, otherVars>>

Uninstall ==
    \E env \in UninstallEnvs :
        LET st == uninstall(hooksDir, env.dirOk, env.io)
        IN  /\ hooksDir' = st.dir
            /\ prevHooks' = hooksDir
            /\ hookOp' = [op |-> "uninstall", force |-> FALSE, protected |-> <<>>]
            /\ hookLog' = st.log
            /\ hookResult' = st.res
            /\ attempted' = st.att
            /\ hookEnv' = env
            /\ UNCHANGED <<initHooks, forced>>
            /\ UNCHANGED <<reportVars, otherVars>>


----------------------------------------------------------------------------
(* check.rs check, fix.rs fix and main.rs fix as actions *)

\* the command ended with the error of kind `kind` (main returns Err: exit 1)
EndWithError(c, kind, done, printed) ==
    /\ pc' = "exited"
    /\ cmd' = c
    /\ prevRepo' = gitRepo
    /\ lastReport' = <<>>
    /\ facadeCalls' = done
    /\ out' = printed
    /\ exitCode' = 1
    /\ errKind' = kind
    /\ UNCHANGED <<gitRepo, configFile>>
    /\ UNCHANGED <<hookVars, otherVars>>

Check ==
    /\ pc = "ready"
    /\ \E format \in {"text", "json"}, limit \in CommitLimits,
       fails \in FailureSets(FallibleCalls \ {"push_set_upstream"}) :
        LET c == [name |-> "check", apply |-> FALSE, format |-> format,
                  limit |-> limit, fails |-> fails]
            cfg == load_config(configFile, fails)
        IN  IF ~cfg.ok THEN EndWithError(c, cfg.kind, <<>>, <<>>)
            ELSE LET r == build_report(cfg.value, limit, gitRepo, fails)
                 IN  IF ~r.ok THEN EndWithError(c, r.kind, r.calls, <<>>)
                     ELSE /\ pc' = "exited"
                          /\ cmd' = c
                          /\ prevRepo' = gitRepo
                          /\ lastReport' = <<r.value>>
                          /\ facadeCalls' = r.calls
                          /\ out' = <<Msg("report", format)>>
                          /\ exitCode' = IF has_violations(r.value) THEN 1 ELSE 0
                          /\ errKind' = "none"
                          /\ UNCHANGED <<gitRepo, configFile>>
                          /\ UNCHANGED <<hookVars, otherVars>>

Fix ==
    /\ pc = "ready"
    /\ \E apply \in BOOLEAN, limit \in CommitLimits, fails \in FailureSets(FallibleCalls) :
        LET c == [name |-> "fix", apply |-> apply, format |-> "text",
                  limit |-> limit, fails |-> fails]
            cfg == load_config(configFile, fails)
        IN  IF ~cfg.ok THEN EndWithError(c, cfg.kind, <<>>, <<>>)
            ELSE LET r == build_report(cfg.value, limit, gitRepo, fails)
                 IN  IF ~r.ok THEN EndWithError(c, r.kind, r.calls, <<>>)
                     ELSE LET f == fix(r.value, apply, fails)
                              pushed == f.ok /\ f.calls # <<>>
                          IN  /\ pc' = "exited"
                              /\ cmd' = c
                              /\ prevRepo' = gitRepo
                              /\ lastReport' = <<r.value>>
                              /\ facadeCalls' = r.calls \o f.calls
                              /\ out' = f.out
                              /\ exitCode' = IF f.ok THEN 0 ELSE 1
                              /\ errKind' = IF f.ok THEN "none" ELSE "RepositoryError"
                              \* git push -u origin <branch> sets the upstream
                              /\ gitRepo' = IF pushed THEN [gitRepo EXCEPT !.upstream = TRUE]
                                         ELSE gitRepo
                              /\ UNCHANGED configFile
                              /\ UNCHANGED <<hookVars, otherVars>>

MainFix ==
    /\ pc = "ready"
    /\ \E limit \in CommitLimits,
       fails \in FailureSets(FallibleCalls \ {"staged_files", "push_set_upstream"}) :
        LET c == [name |-> "main_fix", apply |-> FALSE, format |-> "text",
                  limit |-> limit, fails |-> fails]
            cfg == load_config(configFile, fails)
        IN  IF ~cfg.ok THEN EndWithError(c, cfg.kind, <<>>, <<>>)
            ELSE LET r == main_build_report(cfg.value, limit, gitRepo, fails)
                 IN  IF ~r.ok THEN EndWithError(c, r.kind, r.calls, <<>>)
                     ELSE LET f == main_fix(r.value)
                          IN  /\ pc' = "exited"
                              /\ cmd' = c
                              /\ prevRepo' = gitRepo
                              /\ lastReport' = <<r.value>>
                              /\ facadeCalls' = r.calls
                              /\ out' = f.out
                              /\ exitCode' = 0
                              /\ errKind' = "none"
                              /\ UNCHANGED <<gitRepo, configFile>>
                              /\ UNCHANGED <<hookVars, otherVars>>

\* the process has exited; the next command is typed
NextInvocation ==
    /\ pc = "exited"
    /\ pc' = "ready"
    /\ cmd' = NoCmd
    /\ prevRepo' = gitRepo
    /\ lastReport' = <<>>
    /\ facadeCalls' = <<>>
    /\ out' = <<>>
    /\ exitCode' = 0
    /\ errKind' = "none"
    /\ UNCHANGED <<gitRepo, configFile>>
    /\ UNCHANGED <<hookVars, otherVars>>

InitReportVars(repos, configs) ==
    /\ pc = "ready"
    /\ gitRepo \in repos
    /\ configFile \in configs
    /\ cmd = NoCmd
    /\ prevRepo = gitRepo
    /\ lastReport = <<>>
    /\ facadeCalls = <<>>
    /\ out = <<>>
    /\ exitCode = 0
    /\ errKind = "none"

InitHookVars(files) ==
    /\ hooksDir \in [HookNameSet -> files]
    /\ prevHooks = hooksDir
    /\ initHooks = hooksDir
    /\ forced = FALSE
    /\ hookOp = NoOp
    /\ hookLog = <<>>
    /\ hookResult = "ok"
    /\ attempted = {}
    /\ hookEnv = NoEnv

\* no hook script runs and no function is called on its own
NoPush ==
    [step |-> "idle", args |-> <<>>, branch |-> <<>>, current_branch |-> <<>>,
     check_status |-> 0, events |-> <<>>, status |-> 0]
NoCall == [fn |-> "none"]
InitOtherVars == prePush = NoPush /\ call = NoCall

\* the hooks commands, from every initial hooks directory
InitHooks ==
    /\ InitHookVars(InitialFiles)
    /\ InitReportVars({DefaultRepo}, {default_config})
    /\ InitOtherVars
NextHooks == Install \/ Uninstall
SpecHooks == InitHooks /\ [][NextHooks]_vars

\* check and fix, from every repository and configuration
InitReport ==
    /\ InitHookVars({Absent})
    /\ InitReportVars(Repos, Configs)
    /\ InitOtherVars
NextReport == Check \/ Fix \/ MainFix \/ NextInvocation
SpecReport == InitReport /\ [][NextReport]_vars

\* all commands, from a fresh repository with the default configuration
Init ==
    /\ InitHookVars({Absent})
    /\ InitReportVars({DefaultRepo}, {default_config})
    /\ InitOtherVars
Next == Install \/ Uninstall \/ Check \/ Fix \/ MainFix \/ NextInvocation
Spec == Init /\ [][Next]_vars

----------------------------------------------------------------------------
(* Properties of the hooks commands *)

IsUtf8(content) == \A i \in 1..Len(content) : content[i] # INVALID_UTF8
HasMarker(file) == file.exists /\ Contains(file.content, HOOK_MARKER)
Logged(msg, h) ==
    \E i \in 1..Len(hookLog) : hookLog[i] = [msg |-> msg, hook |-> h]
Silent(h) == \A i \in 1..Len(hookLog) : hookLog[i].hook # h
Generated(h, protected) ==
    IF h = "pre-commit" THEN hook_content ELSE pre_push_hook_content(protected)

\* C2 as stated: after an uninstall that returned without error, for each hook
\* name: an absent file stays absent and nothing is reported; a file whose
\* content contains the marker is deleted; a file whose content does not
\* contain the marker is unchanged and a warning is emitted.
ClaimC2_AsStated ==
    (hookOp.op = "uninstall" /\ hookResult = "ok") =>
        \A h \in HookNameSet :
            /\ ~prevHooks[h].exists => (hooksDir[h] = Absent /\ Silent(h))
            /\ HasMarker(prevHooks[h]) => hooksDir[h] = Absent
            /\ (prevHooks[h].exists /\ ~HasMarker(prevHooks[h])) =>
                   (hooksDir[h] = prevHooks[h] /\ Logged("warn_foreign", h))

\* C2 amended: uninstall deletes a hook file exactly when its content is valid
\* UTF-8 text containing the marker; a file that lacks the marker, or that
\* cannot be read as UTF-8 text (marker or not), keeps its content and gets a
\* warning; an absent file stays absent silently.  An uninstall that fails to
\* remove a file returns the error and leaves the files it did not remove
\* unchanged.
TheoremC2 ==
    hookOp.op = "uninstall" =>
        \A h \in HookNameSet :
            LET owned == HasMarker(prevHooks[h]) /\ IsUtf8(prevHooks[h].content)
            IN  /\ ~prevHooks[h].exists => (hooksDir[h] = Absent /\ Silent(h))
                /\ (prevHooks[h].exists /\ ~owned) =>
                       /\ hooksDir[h] = prevHooks[h]
                       /\ ~Logged("removed", h)
                       /\ h \in attempted => Logged("warn_foreign", h)
                /\ owned =>
                       /\ ~Logged("warn_foreign", h)
                       /\ \/ hooksDir[h] = Absent /\ Logged("removed", h)
                          \/ hooksDir[h] = prevHooks[h] /\ hookResult = "err"
                /\ hookResult = "ok" =>
                       /\ h \in attempted
                       /\ owned => hooksDir[h] = Absent

WitnessC2 ==
    /\ hookOp.op = "uninstall"
    /\ hookResult = "ok"
    /\ prevHooks["pre-commit"] = File(ForeignMarked)
    /\ hooksDir["pre-commit"] = Absent
    /\ prevHooks["pre-push"] = File(MarkedNotUtf8)
    /\ hooksDir["pre-push"] = File(MarkedNotUtf8)
    /\ Logged("warn_foreign", "pre-push")

\* C3: install with force=false leaves every already-existing hook file
\* (marked or not) with unchanged content and warns for it, and still writes
\* every hook file that is absent; install with force=true replaces the
\* content of every hook file by the generated content.  A hook file whose own
\* write or chmod fails is not counted against the claim; neither is a run that
\* cannot find the hooks directory.
OwnIoOk(h) == hookEnv.dirOk /\ hookEnv.io[h] = "ok"

ClaimC3_ForceSemantics ==
    hookOp.op = "install" =>
        \A h \in HookNameSet :
            /\ (~hookOp.force /\ prevHooks[h].exists) =>
                   /\ hooksDir[h] = prevHooks[h]
                   /\ hookEnv.dirOk => Logged("warn_exists", h)
            /\ ((hookOp.force \/ ~prevHooks[h].exists) /\ OwnIoOk(h)) =>
                   hooksDir[h] = File(Generated(h, hookOp.protected))

\* C4: over every sequence of install and uninstall, a hook file disappears
\* only in an uninstall step taken while its content contains the marker; and
\* a hook file that initially lacks the marker keeps its initial content as
\* long as no install with force=true has been executed.
RemovedOnlyByOwnedUninstall ==
    \A h \in HookNameSet :
        (hooksDir[h].exists /\ ~hooksDir'[h].exists) =>
            (hookOp'.op = "uninstall" /\ Contains(hooksDir[h].content, HOOK_MARKER))

UnmarkedKeptUntilForced ==
    \A h \in HookNameSet :
        (initHooks[h].exists /\ ~HasMarker(initHooks[h]) /\ ~forced) =>
            hooksDir[h] = initHooks[h]

TheoremC4 == [][RemovedOnlyByOwnedUninstall]_vars /\ []UnmarkedKeptUntilForced

WitnessC4 ==
    /\ hookOp.op = "uninstall"
    /\ ~forced
    /\ initHooks["pre-commit"] = Absent
    /\ HasMarker(prevHooks["pre-commit"])
    /\ hooksDir["pre-commit"] = Absent
    /\ initHooks["pre-push"] = File(ForeignUnmarked)
    /\ hooksDir["pre-push"] = File(ForeignUnmarked)

\* C5: in install the two hook files are processed independently: whether the
\* pre-commit hook was skipped or its write or chmod failed, the installation
\* of the pre-push hook is still attempted.
ClaimC5_PrePushAlwaysAttempted ==
    (hookOp.op = "install" /\ "pre-commit" \in attempted) => "pre-push" \in attempted

----------------------------------------------------------------------------
(* Properties of check and fix *)

TheReport == lastReport[1]
Reported(names) == pc = "exited" /\ cmd.name \in names /\ lastReport # <<>>

CountOf(seq, x) == Cardinality({i \in 1..Len(seq) : seq[i] = x})
KindCount(kind) == Cardinality({i \in 1..Len(out) : out[i].kind = kind})

InvalidIndexes(r) == {i \in 1..Len(r.commits) : ~r.commits[i].valid}

\* the findings of a Report of check.rs, read from the findings themselves
BranchViolated(r) == ~r.branch.valid
CommitsViolated(r) == InvalidIndexes(r) # {}
WorktreeViolated(r) == ~r.repo.worktree_clean
UpstreamViolated(r) == ~r.repo.upstream_set
SensitiveViolated(r) == r.sensitive.files # <<>>
AnyViolated(r) ==
    \/ BranchViolated(r)
    \/ CommitsViolated(r)
    \/ WorktreeViolated(r)
    \/ UpstreamViolated(r)
    \/ SensitiveViolated(r)

\* C1: for every Report build_report produced, check exits with status 1
\* exactly when the branch finding is invalid, or a commit finding is invalid,
\* or the worktree finding is dirty (only when require_clean_worktree), or the
\* upstream finding is missing (only when require_upstream), or the sensitive
\* finding is non-empty; otherwise it exits with status 0.
TheoremC1 ==
    Reported({"check"}) =>
        /\ exitCode = (IF AnyViolated(TheReport) THEN 1 ELSE 0)
        /\ WorktreeViolated(TheReport) => configFile.checks.require_clean_worktree
        /\ UpstreamViolated(TheReport) => configFile.checks.require_upstream

WitnessC1 ==
    /\ Reported({"check"})
    /\ exitCode = 1
    /\ SensitiveViolated(TheReport)
    /\ ~BranchViolated(TheReport)
    /\ ~CommitsViolated(TheReport)
    /\ TheReport.commits # <<>>
    /\ ~WorktreeViolated(TheReport)
    /\ ~UpstreamViolated(TheReport)

\* the remediation messages of fix, without the headings and confirmations
ActionKinds ==
    {"rename_branch", "clean_worktree", "setting_upstream", "push_instruction",
     "reword", "unstage"}
EmittedActions == SelectSeq(out, LAMBDA m : m.kind \in ActionKinds)

RECURSIVE ExpectedRewords(_)
ExpectedRewords(commits) ==
    IF commits = <<>> THEN <<>>
    ELSE (IF Head(commits).valid THEN <<>> ELSE <<Msg("reword", Head(commits).hash)>>)
         \o ExpectedRewords(Tail(commits))

RECURSIVE ExpectedUnstages(_)
ExpectedUnstages(files) ==
    IF files = <<>> THEN <<>>
    ELSE <<Msg("unstage", Head(files))>> \o ExpectedUnstages(Tail(files))

IsSubsequenceOfOut(msgs) ==
    \A i \in 1..Len(msgs) : \E j \in 1..Len(out) : out[j] = msgs[i]

\* C6: when fix runs with apply=true on a Report whose upstream finding is
\* missing, the set-upstream action is invoked exactly once, and when it fails
\* the command goes on: the reword instruction of every invalid commit and the
\* unstage instruction of every sensitive file are still emitted.
ClaimC6_PushOnceAndNoAbort ==
    (Reported({"fix"}) /\ cmd.apply /\ UpstreamViolated(TheReport)) =>
        /\ CountOf(facadeCalls, "push_set_upstream") = 1
        /\ IsSubsequenceOfOut(ExpectedRewords(TheReport.commits))
        /\ IsSubsequenceOfOut(ExpectedUnstages(TheReport.sensitive.files))

\* C7: during fix the set-upstream action is the only state-changing facade
\* action invoked, and it is invoked (once) exactly when apply=true and the
\* upstream finding of the Report is missing; in every other case, and for the
\* branch, worktree, commit and sensitive-file findings under either value of
\* apply, fix leaves the repository as it found it.
Queries ==
    {"current_branch", "worktree_clean", "has_upstream", "recent_commits",
     "staged_files"}

TheoremC7 ==
    (pc = "exited" /\ cmd.name \in {"fix", "main_fix"}) =>
        LET pushes == CountOf(facadeCalls, "push_set_upstream")
        IN  /\ \A i \in 1..Len(facadeCalls) :
                    facadeCalls[i] \in Queries \cup {"push_set_upstream"}
            /\ pushes = (IF /\ cmd.apply
                            /\ lastReport # <<>>
                            /\ UpstreamViolated(TheReport)
                         THEN 1 ELSE 0)
            /\ pushes = 0 => gitRepo = prevRepo
            /\ gitRepo.branch = prevRepo.branch
            /\ gitRepo.log = prevRepo.log
            /\ gitRepo.dirty = prevRepo.dirty
            /\ gitRepo.staged = prevRepo.staged

WitnessC7 ==
    /\ Reported({"fix"})
    /\ cmd.apply
    /\ CountOf(facadeCalls, "push_set_upstream") = 1
    /\ ~prevRepo.upstream
    /\ gitRepo.upstream
    /\ BranchViolated(TheReport)
    /\ WorktreeViolated(TheReport)
    /\ CommitsViolated(TheReport)
    /\ SensitiveViolated(TheReport)
    /\ gitRepo.dirty
    /\ gitRepo.staged # <<>>

\* C8: for every Report, fix emits its remediation actions in the order branch
\* rename, worktree cleanup, upstream fix, one reword instruction per invalid
\* commit in Report order, one unstage instruction per sensitive file in
\* Report order; an action is emitted for a finding exactly when that finding
\* is violated.
ExpectedActions(r, apply) ==
    (IF BranchViolated(r) THEN <<Msg("rename_branch", r.branch.name)>> ELSE <<>>)
    \o (IF WorktreeViolated(r) THEN <<Msg("clean_worktree", <<>>)>> ELSE <<>>)
    \o (IF ~UpstreamViolated(r) THEN <<>>
        ELSE IF apply THEN <<Msg("setting_upstream", r.branch.name)>>
        ELSE <<Msg("push_instruction", r.branch.name)>>)
    \o ExpectedRewords(r.commits)
    \o ExpectedUnstages(r.sensitive.files)

ClaimC8_OrderedActions ==
    Reported({"fix"}) => EmittedActions = ExpectedActions(TheReport, cmd.apply)

\* C9: fix emits the positive confirmation exactly once when no finding of the
\* Report is violated, and never when at least one finding is violated (for
\* the fix of fix.rs, and for the fix of main.rs whose Report has no sensitive
\* finding).
NoFindingViolated(r, name) ==
    /\ ~BranchViolated(r)
    /\ ~CommitsViolated(r)
    /\ ~WorktreeViolated(r)
    /\ ~UpstreamViolated(r)
    /\ name = "fix" => ~SensitiveViolated(r)

TheoremC9 ==
    Reported({"fix", "main_fix"}) =>
        KindCount("no_fixes_needed") =
            (IF NoFindingViolated(TheReport, cmd.name) THEN 1 ELSE 0)

WitnessC9 ==
    /\ Reported({"fix"})
    /\ NoFindingViolated(TheReport, "fix")
    /\ TheReport.commits # <<>>
    /\ gitRepo.staged # <<>>
    /\ out = <<Msg("suggested_fixes", <<>>), Msg("no_fixes_needed", <<>>)>>

\* C10: every Report build_report returns has summary.total_commits = number
\* of commit findings, summary.invalid_commits = number of commit findings
\* with valid=false, summary.branch_valid = branch.valid,
\* summary.worktree_clean = repo.worktree_clean, summary.upstream_set =
\* repo.upstream_set, summary.sensitive_files = number of sensitive files.
TheoremC10 ==
    Reported({"check", "fix"}) =>
        LET r == TheReport
        IN  /\ r.summary.total_commits = Len(r.commits)
            /\ r.summary.invalid_commits = Cardinality(InvalidIndexes(r))
            /\ r.summary.branch_valid = r.branch.valid
            /\ r.summary.worktree_clean = r.repo.worktree_clean
            /\ r.summary.upstream_set = r.repo.upstream_set
            /\ r.summary.sensitive_files = Len(r.sensitive.files)

WitnessC10 ==
    /\ Reported({"check"})
    /\ TheReport.summary.total_commits = 2
    /\ TheReport.summary.invalid_commits = 1
    /\ TheReport.commits[2].valid
    /\ TheReport.summary.sensitive_files = 2
    /\ ~TheReport.summary.branch_valid
    /\ ~TheReport.summary.worktree_clean
    /\ ~TheReport.summary.upstream_set

----------------------------------------------------------------------------
(* Properties of build_report *)

\* a check or fix command has ended after it loaded its configuration
Built(names) ==
    pc = "exited" /\ cmd.name \in names /\ "load_config" \notin cmd.fails

\* C11: in build_report, when require_clean_worktree is false the worktree_clean
\* query is never executed and the worktree finding is clean; when
\* require_upstream is false the has_upstream query is never executed and the
\* upstream finding is set; when a flag is true the finding is the result of
\* the corresponding query, executed once.
TheoremC11 ==
    Built({"check", "fix", "main_fix"}) =>
        LET checks == configFile.checks
        IN  /\ ~checks.require_clean_worktree =>
                /\ CountOf(facadeCalls, "worktree_clean") = 0
                /\ lastReport # <<>> => TheReport.repo.worktree_clean
            /\ ~checks.require_upstream =>
                /\ CountOf(facadeCalls, "has_upstream") = 0
                /\ lastReport # <<>> => TheReport.repo.upstream_set
            /\ (checks.require_clean_worktree /\ lastReport # <<>>) =>
                /\ CountOf(facadeCalls, "worktree_clean") = 1
                /\ TheReport.repo.worktree_clean = ~prevRepo.dirty
            /\ (checks.require_upstream /\ lastReport # <<>>) =>
                /\ CountOf(facadeCalls, "has_upstream") = 1
                /\ TheReport.repo.upstream_set = prevRepo.upstream

WitnessC11 ==
    /\ Built({"check"})
    /\ lastReport # <<>>
    /\ ~configFile.checks.require_clean_worktree
    /\ configFile.checks.require_upstream
    /\ prevRepo.dirty
    /\ ~prevRepo.upstream
    /\ TheReport.repo.worktree_clean
    /\ ~TheReport.repo.upstream_set
    /\ facadeCalls = <<"current_branch", "has_upstream", "recent_commits", "staged_files">>

\* C12: when the configured commit convention is not recognized, build_report
\* fails with a ConfigError, and no facade query (current_branch,
\* worktree_clean, has_upstream, recent_commits, staged_files) has been
\* executed when the command ends with it.
ClaimC12_ConfigErrorBeforeQueries ==
    (Built({"check", "fix"}) /\ configFile.commits.convention # "conventional") =>
        /\ lastReport = <<>>
        /\ errKind = "ConfigError"
        /\ facadeCalls = <<>>

\* the failing facade queries the last command executed
FailedQueries(queries) ==
    {q \in queries : q \in cmd.fails /\ CountOf(facadeCalls, q) >= 1}

\* C13: if a facade query that build_report executes (current_branch,
\* worktree_clean, recent_commits, staged_files) fails, build_report returns
\* an error, no Report is produced and the check or fix command aborts; this
\* includes a failure of staged_files.
ClaimC13_QueryFailureAborts ==
    (/\ Built({"check", "fix"})
     /\ FailedQueries({"current_branch", "worktree_clean", "recent_commits",
                       "staged_files"}) # {}) =>
        /\ lastReport = <<>>
        /\ errKind = "RepositoryError"
        /\ exitCode # 0

\* C14: with a valid configuration and all facade queries succeeding,
\* build_report returns a Report and never an error, whatever the branch, the
\* commits, the worktree, the upstream and the staged files are; a has_upstream
\* probe that exits unsuccessfully gives upstream_set = false in the Report.
ValidConfig ==
    /\ configFile.branches.pattern # INVALID_PATTERN
    /\ configFile.commits.convention = "conventional"

TheoremC14 ==
    (/\ Built({"check", "fix"})
     /\ ValidConfig
     /\ cmd.fails \cap Queries = {}) =>
        /\ lastReport # <<>>
        /\ cmd.name = "check" => errKind = "none"
        /\ (configFile.checks.require_upstream /\ ~prevRepo.upstream) =>
                ~TheReport.repo.upstream_set

WitnessC14 ==
    /\ Built({"check"})
    /\ ValidConfig
    /\ cmd.fails = {}
    /\ lastReport # <<>>
    /\ errKind = "none"
    /\ exitCode = 1
    /\ BranchViolated(TheReport)
    /\ CommitsViolated(TheReport)
    /\ WorktreeViolated(TheReport)
    /\ UpstreamViolated(TheReport)
    /\ SensitiveViolated(TheReport)
    /\ ~prevRepo.upstream

----------------------------------------------------------------------------
(* hooks.rs:18-41: the generated pre-push script, as /bin/sh runs it when *)
(* git push calls .git/hooks/pre-push                                      *)

\* hooks.rs:24  --force|-f|--force-with-lease)
\* (mutant: the short flag is forgotten)
OnlyLongForceFlags == {"--force", "--force-with-lease"}

ForcePushFlags == {"--force", "-f", "--force-with-lease"}

\* hooks.rs:33
CASE_LINE == "case \"$current_branch\" in\n"

IndexOf(seq, x) ==
    CHOOSE i \in 1..Len(seq) : seq[i] = x /\ \A j \in 1..(i - 1) : seq[j] # x

\* hooks.rs:34  the text the script has between the indentation and the ")"
\* of its protected-branch case item
CasePatternText(content) ==
    LET c == IndexOf(content, CASE_LINE)
        close == CHOOSE j \in (c + 2)..Len(content) :
                    /\ content[j] = ")\n"
                    /\ \A k \in (c + 2)..(j - 1) : content[k] # ")\n"
    IN  SubSeq(content, c + 2, close - 1)

\* the alternatives of a case item: pattern|pattern|...
RECURSIVE SplitAlternatives(_)
SplitAlternatives(text) ==
    LET bars == {i \in 1..Len(text) : text[i] = "|"}
    IN  IF bars = {} THEN <<text>>
        ELSE LET i == CHOOSE j \in bars : \A k \in bars : j <= k
             IN  <<SubSeq(text, 1, i - 1)>> \o SplitAlternatives(Drop(text, i))

\* sh grammar: each alternative of a case item is a word; there is no empty word
CaseItemParses(text) ==
    LET alts == SplitAlternatives(text)
    IN  \A i \in 1..Len(alts) : alts[i] # <<>>

\* sh pattern matching of a case item: "*" any string, "?" any character
RECURSIVE ShMatch(_, _)
ShMatch(pat, str) ==
    IF pat = <<>> THEN str = <<>>
    ELSE IF pat[1] = "*"
    THEN \E k \in 0..Len(str) : ShMatch(Tail(pat), Drop(str, k))
    ELSE IF pat[1] = "?"
    THEN str # <<>> /\ ShMatch(Tail(pat), Tail(str))
    ELSE str # <<>> /\ str[1] = pat[1] /\ ShMatch(Tail(pat), Tail(str))

CaseMatches(text, str) ==
    LET alts == SplitAlternatives(text)
    IN  \E i \in 1..Len(alts) : ShMatch(alts[i], str)

\* hooks.protected_branches lists the script is generated for
PushProtectedLists ==
    {<<>>,
     << <<"m", "a", "i", "n">> >>,
     << <<"m", "a", "i", "n">>, <<"m", "a", "s", "t", "e", "r">> >>,
     << <<"r", "e", "l", "e", "a", "s", "e", "/", "*">> >>}

PushBranches ==
    {<<"m", "a", "i", "n">>, <<"m", "a", "s", "t", "e", "r">>,
     <<"m", "a", "i", "n", "l", "i", "n", "e">>,
     <<"f", "e", "a", "t", "/", "x", "1">>,
     <<"r", "e", "l", "e", "a", "s", "e", "/", "1">>}

PushRepos == {[DefaultRepo EXCEPT !.branch = b] : b \in PushBranches}

\* "$@" of the script
PushArgs ==
    {<<>>, <<"origin", "git@host:repo.git">>, <<"-f">>, <<"origin", "--force">>,
     <<"--force-with-lease", "origin">>}

Event(e) == [prePush EXCEPT !.events = @ \o <<e>>]

\* git push runs the installed script
GitPush ==
    /\ prePush.step \in {"idle", "done"}
    /\ hooksDir["pre-push"].exists
    /\ Contains(hooksDir["pre-push"].content, <<CASE_LINE>>)
    /\ \E args \in PushArgs :
            prePush' = [NoPush EXCEPT !.step = "scan", !.args = args]
    /\ UNCHANGED <<hookVars, reportVars, call>>

\* hooks.rs:22-29  for arg in "$@"; do case "$arg" in ... exit 1
ScanArgs ==
    /\ prePush.step = "scan"
    /\ LET force == \E i \in 1..Len(prePush.args) : prePush.args[i] \in ForcePushFlags
       IN  prePush' =
             IF force
             THEN [Event("scan_args") EXCEPT !.events = @ \o <<"reject_force">>,
                                             !.status = 1, !.step = "done"]
             ELSE [Event("scan_args") EXCEPT !.step = "branch"]
    /\ UNCHANGED <<hookVars, reportVars, call>>

\* hooks.rs:32  current_branch=$(git rev-parse --abbrev-ref HEAD)
RevParse ==
    /\ prePush.step = "branch"
    /\ prePush' = [Event("rev_parse") EXCEPT
                        !.current_branch = Trim(gitRepo.branch \o <<"\n">>),
                        !.step = "case"]
    /\ UNCHANGED <<hookVars, reportVars, call>>

\* hooks.rs:33-38  case "$current_branch" in {branches}) ... exit 1 ;; esac
\* sh reads the case command when it gets to it: a case item that does not
\* parse ends the script with status 2
CaseBranch ==
    /\ prePush.step = "case"
    /\ LET text == CasePatternText(hooksDir["pre-push"].content)
       IN  prePush' =
             IF ~CaseItemParses(text)
             THEN [Event("syntax_error") EXCEPT !.status = 2, !.step = "done"]
             ELSE IF CaseMatches(text, prePush.current_branch)
             THEN [Event("reject_branch") EXCEPT !.status = 1, !.step = "done"]
             ELSE [prePush EXCEPT !.step = "exec"]
    /\ UNCHANGED <<hookVars, reportVars, call>>

\* hooks.rs:40  exec git-sherpa check
ExecCheck ==
    /\ prePush.step = "exec"
    /\ \E st \in {0, 1} :
            prePush' = [Event("check") EXCEPT
                            !.check_status = st, !.status = st, !.step = "done"]
    /\ UNCHANGED <<hookVars, reportVars, call>>

\* the hooks directory after install in a repository without hooks
InitPush ==
    /\ \E pb \in PushProtectedLists :
        LET none == [h \in HookNameSet |-> Absent]
            st == install_with_config(none, FALSE, pb, TRUE, NoEnv.io)
        IN  /\ hooksDir = st.dir
            /\ prevHooks = none
            /\ initHooks = none
            /\ forced = FALSE
            /\ hookOp = [op |-> "install", force |-> FALSE, protected |-> pb]
            /\ hookLog = st.log
            /\ hookResult = st.res
            /\ attempted = st.att
            /\ hookEnv = NoEnv
    /\ InitReportVars(PushRepos, {default_config})
    /\ InitOtherVars
NextPush == GitPush \/ ScanArgs \/ RevParse \/ CaseBranch \/ ExecCheck
SpecPush == InitPush /\ [][NextPush]_vars

----------------------------------------------------------------------------
(* Properties of the pre-push script *)

Happened(e) == \E i \in 1..Len(prePush.events) : prePush.events[i] = e

\* the place of a step in the order scan, protected-branch check, delegation
Rank(e) ==
    CASE e = "scan_args" -> 1
      [] e = "reject_force" -> 2
      [] e = "rev_parse" -> 3
      [] e \in {"syntax_error", "reject_branch"} -> 4
      [] e = "check" -> 5

ForceArgGiven ==
    \E i \in 1..Len(prePush.args) :
        prePush.args[i] \in {"--force", "-f", "--force-with-lease"}

\* the current branch is one of the names the script was generated for
OnListedBranch ==
    \E i \in 1..Len(hookOp.protected) : hookOp.protected[i] = gitRepo.branch

\* C15: every execution of the generated pre-push script does its steps in the
\* order force-push-flag scan, protected-branch check, check-command
\* delegation: with a force-push flag among the arguments it exits non-zero
\* before the current branch is determined; on a protected branch it exits
\* non-zero; the check command runs only when neither rejection fired, and the
\* script's exit status is then the check command's.
TheoremC15 ==
    LET ev == prePush.events
        ended == prePush.step = "done"
    IN  /\ \A i, j \in 1..Len(ev) : i < j => Rank(ev[i]) < Rank(ev[j])
        /\ ev # <<>> => ev[1] = "scan_args"
        /\ (ended /\ ForceArgGiven) =>
                /\ prePush.status # 0
                /\ ~Happened("rev_parse")
                /\ ~Happened("check")
        /\ (ended /\ ~ForceArgGiven /\ OnListedBranch) =>
                /\ prePush.status # 0
                /\ Happened("rev_parse")
                /\ ~Happened("check")
        /\ Happened("check") =>
                /\ ~ForceArgGiven
                /\ ~OnListedBranch
                /\ Happened("rev_parse")
                /\ prePush.status = prePush.check_status

WitnessC15 ==
    /\ prePush.step = "done"
    /\ prePush.args # <<>>
    /\ hookOp.protected # <<>>
    /\ prePush.events = <<"scan_args", "rev_parse", "check">>
    /\ prePush.check_status = 1
    /\ prePush.status = 1

\* C19: for every protected_branches list, the empty list included, the
\* generated pre-push script rejects a push without force flag exactly when
\* the current branch name is equal to one of the listed names, and delegates
\* to the check command for every other branch name.
ClaimC19_RejectsExactlyListed ==
    (prePush.step = "done" /\ ~ForceArgGiven) =>
        IF OnListedBranch
        THEN prePush.status # 0 /\ ~Happened("check")
        ELSE Happened("check") /\ prePush.status = prePush.check_status

----------------------------------------------------------------------------
(* sensitive.rs: check_sensitive_files called on its own *)

\* bound: number of staged paths
MaxStaged == 3

DotEnv == <<".", "e", "n", "v">>
DotEnvLocal == <<".", "e", "n", "v", ".", "l", "o", "c", "a", "l">>
SrcMain == <<"s", "r", "c", "/", "m", "a", "i", "n", ".", "r", "s">>
ServerPem == <<"s", "e", "r", "v", "e", "r", ".", "p", "e", "m">>
NestedIdRsa == <<"a", "/", "i", "d", "_", "r", "s", "a">>
SamplePaths == {DotEnv, DotEnvLocal, SrcMain, ServerPem, NestedIdRsa}

\* sensitive.patterns of the configuration: none, the defaults, and a list
\* with patterns that overlap
OverlappingPatterns ==
    << <<"*", ".", "p", "e", "m">>, <<"s", "e", "r", "v", "e", "r", ".", "*">>,
       <<".", "e", "n", "v", "*">>, <<".", "e", "n", "v">> >>
PatternLists == {<<>>, default_patterns, OverlappingPatterns}

StagedInputs == UNION {[1..n -> SamplePaths] : n \in 0..MaxStaged}

InitSensitive ==
    /\ InitHookVars({Absent})
    /\ InitReportVars({DefaultRepo}, {default_config})
    /\ prePush = NoPush
    /\ \E staged \in StagedInputs, patterns \in PatternLists :
            call = [fn |-> "check_sensitive_files", staged |-> staged,
                    patterns |-> patterns, returned |-> FALSE, result |-> <<>>]

CheckSensitiveFiles ==
    /\ call.fn = "check_sensitive_files"
    /\ ~call.returned
    /\ call' = [call EXCEPT !.returned = TRUE,
                            !.result = check_sensitive_files(call.staged, call.patterns)]
    /\ UNCHANGED <<hookVars, reportVars, prePush>>

NextSensitive == CheckSensitiveFiles
SpecSensitive == InitSensitive /\ [][NextSensitive]_vars

\* C16: for every list of staged paths and every list of patterns,
\* check_sensitive_files returns exactly the staged paths that match at least
\* one pattern, in the order of the input, each input entry at most once even
\* when it matches several patterns; a path that matches no pattern
\* (src/main.rs under the defaults) is never in the result.
MatchingIndexes(staged, patterns) ==
    {i \in 1..Len(staged) : \E j \in 1..Len(patterns) : glob_match(patterns[j], staged[i])}

KthOf(S, k) == CHOOSE i \in S : Cardinality({j \in S : j <= i}) = k

TheoremC16 ==
    (call.fn = "check_sensitive_files" /\ call.returned) =>
        LET hits == MatchingIndexes(call.staged, call.patterns)
        IN  /\ Len(call.result) = Cardinality(hits)
            /\ \A k \in 1..Len(call.result) :
                    call.result[k] = call.staged[KthOf(hits, k)]
            /\ call.patterns = default_patterns =>
                    \A k \in 1..Len(call.result) : call.result[k] # SrcMain
            /\ (call.patterns = default_patterns
                /\ call.staged = <<DotEnv, DotEnvLocal, SrcMain>>) =>
                    call.result = <<DotEnv, DotEnvLocal>>

WitnessC16 ==
    /\ call.fn = "check_sensitive_files"
    /\ call.returned
    /\ call.patterns = OverlappingPatterns
    /\ call.staged = <<ServerPem, SrcMain, DotEnv>>
    /\ call.result = <<ServerPem, DotEnv>>

----------------------------------------------------------------------------
(* check.rs: the conventional commit regex applied to one subject *)

\* bound: number of characters between the type and the separator
MaxScope == 3

\* what a subject starts with: the types, and words that are no type
SubjectHeads ==
    {<<"f", "e", "a", "t">>, <<"f", "i", "x">>, <<"c", "h", "o", "r", "e">>,
     <<"d", "o", "c", "s">>, <<"r", "e", "f", "a", "c", "t", "o", "r">>,
     <<"t", "e", "s", "t">>, <<"p", "e", "r", "f">>, <<"c", "i">>,
     <<"b", "u", "i", "l", "d">>,
     <<>>, <<"F", "i", "x">>, <<"a", "d", "d", "e", "d">>,
     <<"f", "e", "a", "t", "u", "r", "e">>}
ScopeAlphabet == {"(", ")", "a", "1", "A"}
SubjectScopes == UNION {[1..n -> ScopeAlphabet] : n \in 0..MaxScope}
SubjectSeparators == {<<":", " ">>, <<":">>, <<" ">>, <<>>}
SubjectRests == {<<>>, <<"a">>, <<" ">>, <<"a", " ", "b">>}

\* subjects are lines of git log (git.rs:32): they hold no line feed
Subjects ==
    {h \o sc \o sep \o r :
        h \in SubjectHeads, sc \in SubjectScopes, sep \in SubjectSeparators,
        r \in SubjectRests}

InitConventional ==
    /\ InitHookVars({Absent})
    /\ InitReportVars({DefaultRepo}, {default_config})
    /\ prePush = NoPush
    /\ \E subject \in Subjects :
            call = [fn |-> "is_match", subject |-> subject,
                    returned |-> FALSE, result |-> FALSE]

\* check.rs:87-92  commit_regex_for(convention)?.is_match(&message)
IsMatchConventional ==
    /\ call.fn = "is_match"
    /\ ~call.returned
    /\ LET commit_regex == commit_regex_for("conventional")
       IN  call' = [call EXCEPT
                        !.returned = TRUE,
                        !.result = commit_regex.ok
                                   /\ is_match(commit_regex.value, call.subject)]
    /\ UNCHANGED <<hookVars, reportVars, prePush>>

NextConventional == IsMatchConventional
SpecConventional == InitConventional /\ [][NextConventional]_vars

\* C17: under the "conventional" convention a commit subject is valid if and
\* only if it starts with a type from {feat, fix, chore, docs, refactor, test,
\* perf, ci, build}, optionally followed by a parenthesized scope of one or
\* more characters from [a-z0-9-], followed by ": " and a non-empty remainder;
\* a subject with no type prefix, with a type outside the set ("Fix"), or the
\* empty subject is invalid.
ConventionalTypes ==
    {<<"f", "e", "a", "t">>, <<"f", "i", "x">>, <<"c", "h", "o", "r", "e">>,
     <<"d", "o", "c", "s">>, <<"r", "e", "f", "a", "c", "t", "o", "r">>,
     <<"t", "e", "s", "t">>, <<"p", "e", "r", "f">>, <<"c", "i">>,
     <<"b", "u", "i", "l", "d">>}

\* subject = type, a scope of k characters (parentheses included, k = 0:
\* none), ": ", and at least one more character
HasConventionalForm(subject) ==
    \E t \in ConventionalTypes, k \in {0} \cup 3..Len(subject) :
        LET a == Len(t)
        IN  /\ Len(subject) >= a + k + 3
            /\ SubSeq(subject, 1, a) = t
            /\ k > 0 =>
                /\ subject[a + 1] = "("
                /\ subject[a + k] = ")"
                /\ \A i \in (a + 2)..(a + k - 1) :
                        subject[i] \in Lower \cup Digit \cup {"-"}
            /\ subject[a + k + 1] = ":"
            /\ subject[a + k + 2] = " "

TheoremC17 ==
    (call.fn = "is_match" /\ call.returned) =>
        /\ call.result = HasConventionalForm(call.subject)
        /\ call.subject = <<>> => ~call.result
        /\ StartsWith(call.subject, <<"F", "i", "x">>) => ~call.result
        /\ (\A t \in ConventionalTypes : ~StartsWith(call.subject, t)) => ~call.result

WitnessC17 ==
    /\ call.fn = "is_match"
    /\ call.returned
    /\ call.result
    /\ call.subject = <<"c", "i", "(", "a", ")", ":", " ", "a", " ", "b">>

----------------------------------------------------------------------------
(* Install followed by uninstall *)

AllAbsent(dir) == \A h \in HookNameSet : ~dir[h].exists

\* after a successful install with force=true both files hold what install
\* generated, and it holds the marker
ForcedInstallLeavesMarked ==
    (hookOp.op = "install" /\ hookOp.force /\ hookResult = "ok") =>
        \A h \in HookNameSet :
            /\ hooksDir[h].exists
            /\ hooksDir[h].content = Generated(h, hookOp.protected)
            /\ Contains(hooksDir[h].content, HOOK_MARKER)

\* a successful uninstall right after a successful install with force=true
UninstallAfterForcedInstall ==
    (/\ hookOp.op = "install" /\ hookOp.force /\ hookResult = "ok"
     /\ hookOp'.op = "uninstall" /\ hookResult' = "ok") =>
        AllAbsent(hooksDir')

\* one more uninstall
UninstallAgain ==
    (/\ hookOp.op = "uninstall" /\ hookResult = "ok" /\ AllAbsent(hooksDir)
     /\ hookOp'.op = "uninstall") =>
        /\ hooksDir' = hooksDir
        /\ hookResult' = "ok" => hookLog' = <<>>

\* C18: every hook content install generates (pre-commit, and pre-push for
\* every protected_branches list) contains the ownership marker, so from any
\* initial hooks directory a successful install with force=true followed by
\* uninstall leaves pre-commit and pre-push absent, and a second uninstall
\* changes nothing.
TheoremC18 ==
    /\ []ForcedInstallLeavesMarked
    /\ [][UninstallAfterForcedInstall]_vars
    /\ [][UninstallAgain]_vars

WitnessC18 ==
    /\ hookOp.op = "uninstall"
    /\ hookResult = "ok"
    /\ forced
    /\ initHooks["pre-commit"] = File(ForeignUnmarked)
    /\ initHooks["pre-push"] = File(MarkedNotUtf8)
    /\ prevHooks["pre-commit"] = File(hook_content)
    /\ prevHooks["pre-push"] = File(pre_push_hook_content(<<<<"main">>, <<"master">>>>))
    /\ AllAbsent(hooksDir)

====
